---- MODULE Spec2Model ----
(***************************************************************************)
(* firewall-deleter-aws-connector: the Event lifecycle (event.go) and the  *)
(* subscription handler that drives it (main.go).                          *)
(*                                                                         *)
(* Four specifications share the definitions below:                        *)
(*   Spec      the handler, eventHandler, run for NumMsgs inbound messages *)
(*             in any interleaving, with encoding/json as it behaves on    *)
(*             the Event struct (strings, int64 and slices of structs:     *)
(*             json.Marshal returns no error for such a value);            *)
(*   SpecSer   the same handler where json.Marshal may also return an      *)
(*             error, which is the case the err != nil branches of         *)
(*             Event.Error and Event.Complete are written for;             *)
(*   SpecLive  Spec with weak fairness on the handler's steps, for the     *)
(*             termination of an invocation;                               *)
(*   SpecTest  the unit-test harness of TestEvent: marshal an Event,       *)
(*             Process the bytes, Validate the result.                     *)
(***************************************************************************)
EXTENDS Integers, Sequences, FiniteSets, TLC

VARIABLES
    inbox,      \* inbox[m]: m.Data, the payload of inbound message m
    pc,         \* pc[m]: the position of the handler invocation for m
    f,          \* f[m]: the handler's local Event (var f Event)
    err,        \* err[m]: the handler's local err
    published,  \* what nc.Publish has been called with, in call order
    trace,      \* trace[m]: the operations the invocation has called so far
    panicked,   \* log.Panic has been reached: the process is gone
    tpc,        \* harness position
    tsrc,       \* harness: the Event the test builds and marshals
    te,         \* harness: var e Event
    terr        \* harness: the error Validate returned

vars == <<inbox, pc, f, err, published, trace, panicked, tpc, tsrc, te, terr>>

handlerVars == <<inbox, pc, f, err, published, trace, panicked>>

testVars == <<tpc, tsrc, te, terr>>

(***************************************************************************)
(* Bounds                                                                  *)
(***************************************************************************)
NumMsgs == 2

MaxRules == 2

Msgs == 1..NumMsgs

(***************************************************************************)
(* Go values: error, rule, []rule, Event                                   *)
(***************************************************************************)
NoError == [isNil |-> TRUE, msg |-> ""]

NewError(text) == [isNil |-> FALSE, msg |-> text]

ErrDatacenterIDInvalid == NewError("Datacenter VPC ID invalid")

ErrDatacenterRegionInvalid == NewError("Datacenter Region invalid")

ErrDatacenterCredentialsInvalid == NewError("Datacenter credentials invalid")

ErrSGAWSIDInvalid == NewError("Security Group aws id invalid")

ErrSGNameInvalid == NewError("Security Group name invalid")

ErrSGRulesInvalid == NewError("Security Group must contain rules")

ErrSGRuleIPInvalid == NewError("Security Group rule ip invalid")

ErrSGRuleProtocolInvalid == NewError("Security Group rule protocol invalid")

ErrSGRuleFromPortInvalid == NewError("Security Group rule from port invalid")

ErrSGRuleToPortInvalid == NewError("Security Group rule to port invalid")

MaxPort == 65535

\* A []rule is nil or holds a sequence of rules; len() of a nil slice is 0.
NilSlice == [isNil |-> TRUE, elems |-> <<>>]

Slice(rules) == [isNil |-> FALSE, elems |-> rules]

len(s) == Len(s.elems)

\* var f Event: every field at its zero value.
ZeroEvent ==
    [ ID |-> "", DatacenterVPCID |-> "", DatacenterRegion |-> "",
      DatacenterAccessKey |-> "", DatacenterAccessToken |-> "",
      NetworkAWSID |-> "", SecurityGroupAWSID |-> "", SecurityGroupName |-> "",
      SecurityGroupRules |-> [Ingress |-> NilSlice, Egress |-> NilSlice],
      ErrorMessage |-> "" ]

(***************************************************************************)
(* Event.Validate                                                          *)
(***************************************************************************)
\* Variant: the upper port comparison is >= and not >.
ValidateRuleOffByOne(rule) ==
    IF rule.IP = "" THEN ErrSGRuleIPInvalid
    ELSE IF rule.Protocol = "" THEN ErrSGRuleProtocolInvalid
    ELSE IF rule.FromPort < 1 \/ rule.FromPort >= MaxPort THEN ErrSGRuleFromPortInvalid
    ELSE IF rule.ToPort < 1 \/ rule.ToPort >= MaxPort THEN ErrSGRuleToPortInvalid
    ELSE NoError

\* Variant: a rule whose from port lies above its to port is turned down.
ValidateRuleOrdersPorts(rule) ==
    IF rule.IP = "" THEN ErrSGRuleIPInvalid
    ELSE IF rule.Protocol = "" THEN ErrSGRuleProtocolInvalid
    ELSE IF rule.FromPort < 1 \/ rule.FromPort > MaxPort THEN ErrSGRuleFromPortInvalid
    ELSE IF rule.ToPort < 1 \/ rule.ToPort > MaxPort \/ rule.ToPort < rule.FromPort
        THEN ErrSGRuleToPortInvalid
    ELSE NoError

\* The body of either range loop: the four checks on one rule.
ValidateRule(rule) ==
    IF rule.IP = "" THEN ErrSGRuleIPInvalid
    ELSE IF rule.Protocol = "" THEN ErrSGRuleProtocolInvalid
    ELSE IF rule.FromPort < 1 \/ rule.FromPort > MaxPort THEN ErrSGRuleFromPortInvalid
    ELSE IF rule.ToPort < 1 \/ rule.ToPort > MaxPort THEN ErrSGRuleToPortInvalid
    ELSE NoError

\* for _, rule := range rules: return at the first rule that fails.
RECURSIVE ValidateRules(_)
ValidateRules(rules) ==
    IF rules = <<>> THEN NoError
    ELSE IF ~ValidateRule(Head(rules)).isNil THEN ValidateRule(Head(rules))
    ELSE ValidateRules(Tail(rules))

\* The rule-count condition as written: both operands read Egress.
NoRules(ev) ==
    len(ev.SecurityGroupRules.Egress) < 1 /\ len(ev.SecurityGroupRules.Egress) < 1

\* Variant: the egress loop runs before the ingress loop.
ValidateEgressFirst(ev) ==
    IF ev.DatacenterVPCID = "" THEN ErrDatacenterIDInvalid
    ELSE IF ev.DatacenterRegion = "" THEN ErrDatacenterRegionInvalid
    ELSE IF ev.DatacenterAccessKey = "" \/ ev.DatacenterAccessToken = ""
        THEN ErrDatacenterCredentialsInvalid
    ELSE IF ev.SecurityGroupAWSID = "" THEN ErrSGAWSIDInvalid
    ELSE IF ev.SecurityGroupName = "" THEN ErrSGNameInvalid
    ELSE IF NoRules(ev) THEN ErrSGRulesInvalid
    ELSE IF ~ValidateRules(ev.SecurityGroupRules.Egress.elems).isNil
        THEN ValidateRules(ev.SecurityGroupRules.Egress.elems)
    ELSE ValidateRules(ev.SecurityGroupRules.Ingress.elems)

Validate(ev) ==
    IF ev.DatacenterVPCID = "" THEN ErrDatacenterIDInvalid
    ELSE IF ev.DatacenterRegion = "" THEN ErrDatacenterRegionInvalid
    ELSE IF ev.DatacenterAccessKey = "" \/ ev.DatacenterAccessToken = ""
        THEN ErrDatacenterCredentialsInvalid
    ELSE IF ev.SecurityGroupAWSID = "" THEN ErrSGAWSIDInvalid
    ELSE IF ev.SecurityGroupName = "" THEN ErrSGNameInvalid
    ELSE IF NoRules(ev) THEN ErrSGRulesInvalid
    ELSE IF ~ValidateRules(ev.SecurityGroupRules.Ingress.elems).isNil
        THEN ValidateRules(ev.SecurityGroupRules.Ingress.elems)
    ELSE ValidateRules(ev.SecurityGroupRules.Egress.elems)

(***************************************************************************)
(* encoding/json on the Event struct.  Bytes are modelled by what they     *)
(* hold: a JSON document is a map from the keys present to their values;   *)
(* anything json.Unmarshal rejects is garbage, told apart by a tag.        *)
(***************************************************************************)
Get(doc, key, old) == IF key \in DOMAIN doc THEN doc[key] ELSE old

\* json:"...,omitempty": the key is left out when the string is empty.
OmitEmpty(doc, key, val) == IF val = "" THEN doc ELSE doc @@ (key :> val)

\* Strings are atoms here; one of them stands for a Go string holding a byte
\* sequence that is not UTF-8.  json.Marshal writes strings coerced to valid
\* UTF-8: each invalid byte becomes the replacement rune U+FFFD.
InvalidUTF8 == "\\xff"

ReplacementRune == "\\ufffd"

ToValidUTF8(s) == IF s = InvalidUTF8 THEN ReplacementRune ELSE s

MarshalRule(r) ==
    [ ip |-> ToValidUTF8(r.IP), from_port |-> r.FromPort, to_port |-> r.ToPort,
      protocol |-> ToValidUTF8(r.Protocol) ]

\* A nil slice is written as null, any other slice as an array.
MarshalRules(s) ==
    [null |-> s.isNil, items |-> [i \in 1..Len(s.elems) |-> MarshalRule(s.elems[i])]]

MarshalEvent(ev) ==
    OmitEmpty(
        OmitEmpty(
            [ id |-> ToValidUTF8(ev.ID),
              datacenter_vpc_id |-> ToValidUTF8(ev.DatacenterVPCID),
              datacenter_region |-> ToValidUTF8(ev.DatacenterRegion),
              datacenter_access_key |-> ToValidUTF8(ev.DatacenterAccessKey),
              datacenter_access_token |-> ToValidUTF8(ev.DatacenterAccessToken),
              network_aws_id |-> ToValidUTF8(ev.NetworkAWSID),
              security_group_name |-> ToValidUTF8(ev.SecurityGroupName),
              security_group_rules |->
                  [ ingress |-> MarshalRules(ev.SecurityGroupRules.Ingress),
                    egress |-> MarshalRules(ev.SecurityGroupRules.Egress) ] ],
            "security_group_aws_id", ToValidUTF8(ev.SecurityGroupAWSID)),
        "error", ToValidUTF8(ev.ErrorMessage))

\* json.Marshal(ev) when it returns no error.
Marshal(ev) == [kind |-> "json", doc |-> MarshalEvent(ev)]

\* The data of a failed json.Marshal: a nil []byte.
NilBytes == [kind |-> "nil"]

\* Variant: the from_port and to_port keys read into each other's field.
UnmarshalRuleSwapsPorts(d) ==
    [ IP |-> Get(d, "ip", ""), FromPort |-> Get(d, "to_port", 0),
      ToPort |-> Get(d, "from_port", 0), Protocol |-> Get(d, "protocol", "") ]

UnmarshalRule(d) ==
    [ IP |-> Get(d, "ip", ""), FromPort |-> Get(d, "from_port", 0),
      ToPort |-> Get(d, "to_port", 0), Protocol |-> Get(d, "protocol", "") ]

\* null sets a nil slice; an array, also an empty one, makes a slice; an
\* absent key leaves the slice as it was.
UnmarshalRules(obj, key, old) ==
    IF key \notin DOMAIN obj THEN old
    ELSE IF obj[key].null THEN NilSlice
    ELSE Slice([i \in 1..Len(obj[key].items) |-> UnmarshalRule(obj[key].items[i])])

\* Variant: the network_aws_id key is not read.
UnmarshalEventDropsNetwork(doc, ev) ==
    [ ID |-> Get(doc, "id", ev.ID),
      DatacenterVPCID |-> Get(doc, "datacenter_vpc_id", ev.DatacenterVPCID),
      DatacenterRegion |-> Get(doc, "datacenter_region", ev.DatacenterRegion),
      DatacenterAccessKey |-> Get(doc, "datacenter_access_key", ev.DatacenterAccessKey),
      DatacenterAccessToken |->
          Get(doc, "datacenter_access_token", ev.DatacenterAccessToken),
      NetworkAWSID |-> ev.NetworkAWSID,
      SecurityGroupAWSID |-> Get(doc, "security_group_aws_id", ev.SecurityGroupAWSID),
      SecurityGroupName |-> Get(doc, "security_group_name", ev.SecurityGroupName),
      SecurityGroupRules |->
          IF "security_group_rules" \in DOMAIN doc
          THEN [ Ingress |-> UnmarshalRules(doc.security_group_rules, "ingress",
                                            ev.SecurityGroupRules.Ingress),
                 Egress |-> UnmarshalRules(doc.security_group_rules, "egress",
                                           ev.SecurityGroupRules.Egress) ]
          ELSE ev.SecurityGroupRules,
      ErrorMessage |-> Get(doc, "error", ev.ErrorMessage) ]

\* Decoding into ev: a key that is present sets its field, an absent key
\* leaves the field as it was.
UnmarshalEvent(doc, ev) ==
    [ ID |-> Get(doc, "id", ev.ID),
      DatacenterVPCID |-> Get(doc, "datacenter_vpc_id", ev.DatacenterVPCID),
      DatacenterRegion |-> Get(doc, "datacenter_region", ev.DatacenterRegion),
      DatacenterAccessKey |-> Get(doc, "datacenter_access_key", ev.DatacenterAccessKey),
      DatacenterAccessToken |->
          Get(doc, "datacenter_access_token", ev.DatacenterAccessToken),
      NetworkAWSID |-> Get(doc, "network_aws_id", ev.NetworkAWSID),
      SecurityGroupAWSID |-> Get(doc, "security_group_aws_id", ev.SecurityGroupAWSID),
      SecurityGroupName |-> Get(doc, "security_group_name", ev.SecurityGroupName),
      SecurityGroupRules |->
          IF "security_group_rules" \in DOMAIN doc
          THEN [ Ingress |-> UnmarshalRules(doc.security_group_rules, "ingress",
                                            ev.SecurityGroupRules.Ingress),
                 Egress |-> UnmarshalRules(doc.security_group_rules, "egress",
                                           ev.SecurityGroupRules.Egress) ]
          ELSE ev.SecurityGroupRules,
      ErrorMessage |-> Get(doc, "error", ev.ErrorMessage) ]

ErrDecode == NewError("invalid character 'x' looking for beginning of value")

\* json.Unmarshal(data, &ev): the Event after the call and the error returned.
Unmarshal(data, ev) ==
    IF data.kind = "json"
    THEN [ev |-> UnmarshalEvent(data.doc, ev), err |-> NoError]
    ELSE [ev |-> ev, err |-> ErrDecode]

(***************************************************************************)
(* The Event methods that publish.  Each is the whole call: the Event      *)
(* after it, what it returned, and what it handed to nc.Publish, in order. *)
(***************************************************************************)
DoneSubject == "firewall.delete.aws.done"

ErrorSubject == "firewall.delete.aws.error"

Pub(subject, data) == [subject |-> subject, data |-> data]

\* Variant: on a decode failure the Event is re-serialized and sent, not the bytes.
ProcessEchoesEvent(ev, data) ==
    LET r == Unmarshal(data, ev)
    IN  [ ev |-> r.ev, err |-> r.err,
          pubs |-> IF ~r.err.isNil THEN <<Pub(ErrorSubject, Marshal(r.ev))>> ELSE <<>> ]

Process(ev, data) ==
    LET r == Unmarshal(data, ev)
    IN  [ ev |-> r.ev, err |-> r.err,
          pubs |-> IF ~r.err.isNil THEN <<Pub(ErrorSubject, data)>> ELSE <<>> ]

\* Variant: the Event is published without err's message recorded in it.
ErrorKeepsMessage(ev, e) ==
    [ev |-> ev, pubs |-> <<Pub(ErrorSubject, Marshal(ev))>>, panic |-> FALSE]

\* Variant: Error blanks the credentials before it serializes the Event.
ErrorScrubsCredentials(ev, e) ==
    LET ev2 == [ev EXCEPT !.ErrorMessage = e.msg,
                          !.DatacenterAccessKey = "", !.DatacenterAccessToken = ""]
    IN  [ev |-> ev2, pubs |-> <<Pub(ErrorSubject, Marshal(ev2))>>, panic |-> FALSE]

\* Error when its json.Marshal succeeds.
Error(ev, e) ==
    LET ev2 == [ev EXCEPT !.ErrorMessage = e.msg]
    IN  [ev |-> ev2, pubs |-> <<Pub(ErrorSubject, Marshal(ev2))>>, panic |-> FALSE]

\* Variant: Error goes on past the failed json.Marshal and publishes its data.
ErrorMarshalFailsSilently(ev, e) ==
    [ ev |-> [ev EXCEPT !.ErrorMessage = e.msg],
      pubs |-> <<Pub(ErrorSubject, NilBytes)>>, panic |-> FALSE ]

\* Error when its json.Marshal fails: log.Panic, before any publish.
ErrorMarshalFails(ev, e) ==
    [ev |-> [ev EXCEPT !.ErrorMessage = e.msg], pubs |-> <<>>, panic |-> TRUE]

\* Complete when its json.Marshal succeeds.
Complete(ev) ==
    [ev |-> ev, pubs |-> <<Pub(DoneSubject, Marshal(ev))>>, panic |-> FALSE]

ErrMarshal == NewError("json: error calling MarshalJSON")

\* Complete when its json.Marshal fails: data is nil and err is set; ev.Error(err)
\* runs (errorMarshals: whether the Marshal inside it succeeds), and when that
\* call comes back the Publish of line 136 still runs, with the nil data.
CompleteMarshalFails(ev, errorMarshals) ==
    LET r == IF errorMarshals THEN Error(ev, ErrMarshal)
             ELSE ErrorMarshalFails(ev, ErrMarshal)
    IN  [ ev |-> r.ev,
          pubs |-> IF r.panic THEN r.pubs
                   ELSE r.pubs \o <<Pub(DoneSubject, NilBytes)>>,
          panic |-> r.panic ]

(***************************************************************************)
(* deleteFirewall: the EC2 DeleteSecurityGroup call, an outside operation  *)
(* that returns nil or the SDK's error.                                    *)
(***************************************************************************)
DeleteErrors ==
    { NewError("InvalidGroup.NotFound: The security group does not exist"),
      NewError("RequestError: send request failed") }

deleteFirewall == {NoError} \cup DeleteErrors

(***************************************************************************)
(* Inbound payloads.  testEvent and the rules of buildTestRules are the    *)
(* test file's; the other events differ from it in the named fields.       *)
(***************************************************************************)
IngressRule == [IP |-> "10.0.10.100/32", FromPort |-> 80, ToPort |-> 8080, Protocol |-> "tcp"]

EgressRule == [IP |-> "8.8.8.8/32", FromPort |-> 80, ToPort |-> 8080, Protocol |-> "tcp"]

WithRules(ev, ingress, egress) ==
    [ev EXCEPT !.SecurityGroupRules = [Ingress |-> ingress, Egress |-> egress]]

testEvent ==
    WithRules(
        [ ZeroEvent EXCEPT !.ID = "test", !.DatacenterVPCID = "vpc-0000000",
                           !.DatacenterRegion = "eu-west-1",
                           !.DatacenterAccessKey = "key",
                           !.DatacenterAccessToken = "token",
                           !.SecurityGroupAWSID = "sg-0000000",
                           !.SecurityGroupName = "test" ],
        Slice(<<IngressRule>>), Slice(<<EgressRule>>))

\* Events that pass Validate.
AcceptedEvents ==
    { testEvent,
      [testEvent EXCEPT !.ID = "", !.NetworkAWSID = "subnet-0000000"],
      [testEvent EXCEPT !.ErrorMessage = "previous failure"],
      WithRules(testEvent, NilSlice,
                Slice(<<EgressRule, [IngressRule EXCEPT !.FromPort = 8080, !.ToPort = 80]>>)) }

\* Events that Validate turns down.
RejectedEvents ==
    { [testEvent EXCEPT !.DatacenterVPCID = ""],
      [testEvent EXCEPT !.DatacenterAccessToken = ""],
      [testEvent EXCEPT !.SecurityGroupAWSID = ""],
      [testEvent EXCEPT !.DatacenterVPCID = "", !.SecurityGroupName = ""],
      WithRules(testEvent, Slice(<<>>), Slice(<<>>)),
      WithRules(testEvent, Slice(<<IngressRule>>), Slice(<<>>)),
      WithRules(testEvent, Slice(<<[IngressRule EXCEPT !.IP = ""]>>), Slice(<<>>)),
      WithRules(testEvent, Slice(<<[IngressRule EXCEPT !.FromPort = 999999]>>),
                Slice(<<EgressRule>>)),
      WithRules(testEvent, Slice(<<IngressRule>>),
                Slice(<<[EgressRule EXCEPT !.ToPort = -99999, !.Protocol = ""]>>)) }

\* Bytes json.Unmarshal rejects.
GarbageInputs == { [kind |-> "garbage", text |-> "not json"],
                   [kind |-> "garbage", text |-> "{\"id\": 5}"] }

\* A document json.Marshal would not write: keys left out, an empty error.
SparseInputs ==
    { [kind |-> "json",
       doc |-> [ datacenter_vpc_id |-> "vpc-0000000", datacenter_region |-> "eu-west-1",
                 datacenter_access_key |-> "key", datacenter_access_token |-> "token",
                 security_group_aws_id |-> "sg-0000000", security_group_name |-> "test",
                 security_group_rules |->
                     [egress |-> [null |-> FALSE, items |-> <<MarshalRule(EgressRule)>>]],
                 error |-> "" ]] }

\* The Events whose serialization arrives as a payload.
SourceEvents == AcceptedEvents \cup RejectedEvents

Inputs == { Marshal(ev) : ev \in SourceEvents } \cup GarbageInputs \cup SparseInputs

\* Inputs in some fixed order.
RECURSIVE ListOf(_)
ListOf(S) ==
    IF S = {} THEN <<>>
    ELSE LET x == CHOOSE y \in S : TRUE IN <<x>> \o ListOf(S \ {x})

InputList == ListOf(Inputs)

\* Every invocation runs the same handler, so the messages are numbered in the
\* order of their payloads in InputList: any other assignment of payloads to
\* messages is one of these with the message numbers renamed.
Inboxes ==
    { [m \in Msgs |-> InputList[k[m]]] :
        k \in { h \in [Msgs -> 1..Len(InputList)] :
                  \A m, n \in Msgs : m < n => h[m] <= h[n] } }

(***************************************************************************)
(* eventHandler, one invocation per inbound message.  Each action is one   *)
(* call the handler makes, with the branch the handler takes on its return.*)
(***************************************************************************)
Publish(m, pubs) ==
    published' = published \o [i \in 1..Len(pubs) |-> pubs[i] @@ ("by" :> m)]

Called(m, op) == trace' = [trace EXCEPT ![m] = Append(@, op)]

\* err := f.Process(m.Data); if err != nil { return }
DoProcess(m) ==
    /\ ~panicked
    /\ pc[m] = "Process"
    /\ LET r == Process(f[m], inbox[m])
       IN  /\ f' = [f EXCEPT ![m] = r.ev]
           /\ err' = [err EXCEPT ![m] = r.err]
           /\ Publish(m, r.pubs)
           /\ pc' = [pc EXCEPT ![m] = IF r.err.isNil THEN "Validate" ELSE "returned"]
    /\ Called(m, "Process")
    /\ UNCHANGED <<inbox, panicked, testVars>>

\* Variant: the handler goes on to deleteFirewall whatever Validate returned.
DoValidateIgnoresError(m) ==
    /\ ~panicked
    /\ pc[m] = "Validate"
    /\ err' = [err EXCEPT ![m] = Validate(f[m])]
    /\ pc' = [pc EXCEPT ![m] = "deleteFirewall"]
    /\ Called(m, "Validate")
    /\ UNCHANGED <<inbox, f, published, panicked, testVars>>

\* Variant: Validate writes the message of the error it returns into the Event.
DoValidateRecordsError(m) ==
    /\ ~panicked
    /\ pc[m] = "Validate"
    /\ err' = [err EXCEPT ![m] = Validate(f[m])]
    /\ f' = [f EXCEPT ![m].ErrorMessage = Validate(f[m]).msg]
    /\ pc' = [pc EXCEPT ![m] = IF Validate(f[m]).isNil THEN "deleteFirewall" ELSE "Error"]
    /\ Called(m, "Validate")
    /\ UNCHANGED <<inbox, published, panicked, testVars>>

\* Variant: on a Validate error the handler returns without calling f.Error.
DoValidateReturnsSilently(m) ==
    /\ ~panicked
    /\ pc[m] = "Validate"
    /\ err' = [err EXCEPT ![m] = Validate(f[m])]
    /\ pc' = [pc EXCEPT ![m] = IF Validate(f[m]).isNil THEN "deleteFirewall" ELSE "returned"]
    /\ Called(m, "Validate")
    /\ UNCHANGED <<inbox, f, published, panicked, testVars>>

\* if err = f.Validate(); err != nil { f.Error(err); return }
DoValidate(m) ==
    /\ ~panicked
    /\ pc[m] = "Validate"
    /\ err' = [err EXCEPT ![m] = Validate(f[m])]
    /\ pc' = [pc EXCEPT ![m] = IF Validate(f[m]).isNil THEN "deleteFirewall" ELSE "Error"]
    /\ Called(m, "Validate")
    /\ UNCHANGED <<inbox, f, published, panicked, testVars>>

\* Variant: the handler completes the request whatever deleteFirewall returned.
DoDeleteFirewallIgnoresError(m) ==
    /\ ~panicked
    /\ pc[m] = "deleteFirewall"
    /\ \E e \in deleteFirewall :
          /\ err' = [err EXCEPT ![m] = e]
          /\ pc' = [pc EXCEPT ![m] = "Complete"]
    /\ Called(m, "deleteFirewall")
    /\ UNCHANGED <<inbox, f, published, panicked, testVars>>

\* err = deleteFirewall(&f); if err != nil { f.Error(err); return }
DoDeleteFirewall(m) ==
    /\ ~panicked
    /\ pc[m] = "deleteFirewall"
    /\ \E e \in deleteFirewall :
          /\ err' = [err EXCEPT ![m] = e]
          /\ pc' = [pc EXCEPT ![m] = IF e.isNil THEN "Complete" ELSE "Error"]
    /\ Called(m, "deleteFirewall")
    /\ UNCHANGED <<inbox, f, published, panicked, testVars>>

\* f.Error(err); return
DoError(m) ==
    /\ ~panicked
    /\ pc[m] = "Error"
    /\ LET r == Error(f[m], err[m])
       IN  /\ f' = [f EXCEPT ![m] = r.ev]
           /\ Publish(m, r.pubs)
    /\ pc' = [pc EXCEPT ![m] = "returned"]
    /\ Called(m, "Error")
    /\ UNCHANGED <<inbox, err, panicked, testVars>>

\* Variant: the Event is one package-level variable, the one the first
\* invocation filled, and not a local of each invocation.
DoCompleteSharedEvent(m) ==
    /\ ~panicked
    /\ pc[m] = "Complete"
    /\ LET r == Complete(f[1])
       IN  /\ f' = [f EXCEPT ![m] = r.ev]
           /\ Publish(m, r.pubs)
    /\ pc' = [pc EXCEPT ![m] = "returned"]
    /\ Called(m, "Complete")
    /\ UNCHANGED <<inbox, err, panicked, testVars>>

\* f.Complete()
DoComplete(m) ==
    /\ ~panicked
    /\ pc[m] = "Complete"
    /\ LET r == Complete(f[m])
       IN  /\ f' = [f EXCEPT ![m] = r.ev]
           /\ Publish(m, r.pubs)
    /\ pc' = [pc EXCEPT ![m] = "returned"]
    /\ Called(m, "Complete")
    /\ UNCHANGED <<inbox, err, panicked, testVars>>

\* f.Error(err) when the json.Marshal inside it fails: the process panics.
DoErrorMarshalFails(m) ==
    /\ ~panicked
    /\ pc[m] = "Error"
    /\ LET r == ErrorMarshalFails(f[m], err[m])
       IN  /\ f' = [f EXCEPT ![m] = r.ev]
           /\ Publish(m, r.pubs)
           /\ panicked' = r.panic
           /\ pc' = [pc EXCEPT ![m] = IF r.panic THEN "panicked" ELSE "returned"]
    /\ Called(m, "Error")
    /\ UNCHANGED <<inbox, err, testVars>>

\* f.Complete() when its json.Marshal fails.
DoCompleteMarshalFails(m) ==
    /\ ~panicked
    /\ pc[m] = "Complete"
    /\ \E errorMarshals \in BOOLEAN :
          LET r == CompleteMarshalFails(f[m], errorMarshals)
          IN  /\ f' = [f EXCEPT ![m] = r.ev]
              /\ Publish(m, r.pubs)
              /\ panicked' = r.panic
              /\ pc' = [pc EXCEPT ![m] = IF r.panic THEN "panicked" ELSE "returned"]
    /\ trace' = [trace EXCEPT ![m] = @ \o <<"Complete", "Error">>]
    /\ UNCHANGED <<inbox, err, testVars>>

(***************************************************************************)
(* The harness of TestEvent: invalid, _ := json.Marshal(testEventInvalid); *)
(* var e Event; e.Process(invalid); err := e.Validate().                   *)
(***************************************************************************)
Strs(v) == {"", v}

\* Ingress and egress as the tests set them, and the shapes next to those.
RuleShapes ==
    { <<NilSlice, NilSlice>>, <<Slice(<<>>), Slice(<<>>)>>,
      <<Slice(<<IngressRule>>), Slice(<<EgressRule>>)>>,
      <<Slice(<<IngressRule>>), Slice(<<>>)>>,
      <<NilSlice, Slice(<<EgressRule>>)>>,
      <<Slice(<<[IngressRule EXCEPT !.ToPort = 0]>>), Slice(<<EgressRule>>)>> }

\* Every choice of empty and set string fields, over each shape.
HeaderEvents ==
    { WithRules(
        [ ID |-> id, DatacenterVPCID |-> vpc, DatacenterRegion |-> region,
          DatacenterAccessKey |-> key, DatacenterAccessToken |-> token,
          NetworkAWSID |-> net, SecurityGroupAWSID |-> sg, SecurityGroupName |-> name,
          SecurityGroupRules |-> ZeroEvent.SecurityGroupRules, ErrorMessage |-> msg ],
        shape[1], shape[2]) :
        id \in Strs("test"), vpc \in Strs("vpc-0000000"), region \in Strs("eu-west-1"),
        key \in Strs("key"), token \in Strs("token"), net \in Strs("subnet-0000000"),
        sg \in Strs("sg-0000000"), name \in Strs("test"), msg \in Strs("previous failure"),
        shape \in RuleShapes }

SampleRules ==
    { IngressRule,
      [IngressRule EXCEPT !.IP = ""],
      [IngressRule EXCEPT !.Protocol = ""],
      [IngressRule EXCEPT !.FromPort = 0],
      [IngressRule EXCEPT !.ToPort = 65536],
      [IngressRule EXCEPT !.IP = "", !.ToPort = 65536] }

RuleLists == UNION { [1..n -> SampleRules] : n \in 0..MaxRules }

\* testEvent with every pair of rule lists up to MaxRules long.
RuleEvents == { WithRules(testEvent, Slice(i), Slice(e)) : i \in RuleLists, e \in RuleLists }

Ports == {-99999, 0, 1, 80, 65535, 65536, 999999}

AllRules ==
    { [IP |-> ip, FromPort |-> from, ToPort |-> to, Protocol |-> proto] :
        ip \in Strs("10.0.10.100/32"), from \in Ports, to \in Ports, proto \in Strs("tcp") }

\* testEvent with one rule of buildTestRules replaced.
PortEvents ==
    { WithRules(testEvent, Slice(<<r>>), Slice(<<EgressRule>>)) : r \in AllRules }
        \cup { WithRules(testEvent, Slice(<<IngressRule>>), Slice(<<r>>)) : r \in AllRules }

\* testEvent with a string that is not UTF-8 in a field Validate reads, in a
\* field it does not read, and in a rule.
EncodingEvents ==
    { [testEvent EXCEPT !.SecurityGroupName = InvalidUTF8],
      [testEvent EXCEPT !.ID = InvalidUTF8],
      WithRules(testEvent, Slice(<<IngressRule>>),
                Slice(<<[EgressRule EXCEPT !.Protocol = InvalidUTF8]>>)) }

TestEvents == HeaderEvents \cup RuleEvents \cup PortEvents \cup EncodingEvents

TestProcess ==
    /\ tpc = "Process"
    /\ te' = Process(te, Marshal(tsrc)).ev
    /\ tpc' = "Validate"
    /\ UNCHANGED <<tsrc, terr, handlerVars>>

TestValidate ==
    /\ tpc = "Validate"
    /\ terr' = Validate(te)
    /\ tpc' = "done"
    /\ UNCHANGED <<tsrc, te, handlerVars>>

InitTest ==
    /\ tsrc \in TestEvents
    /\ tpc = "Process"
    /\ te = ZeroEvent
    /\ terr = NoError
    /\ inbox = [m \in Msgs |-> NilBytes]
    /\ pc = [m \in Msgs |-> "off"]
    /\ f = [m \in Msgs |-> ZeroEvent]
    /\ err = [m \in Msgs |-> NoError]
    /\ published = <<>>
    /\ trace = [m \in Msgs |-> <<>>]
    /\ panicked = FALSE

NextTest == TestProcess \/ TestValidate

SpecTest == InitTest /\ [][NextTest]_vars

TestIdle == tpc = "off" /\ tsrc = ZeroEvent /\ te = ZeroEvent /\ terr = NoError

Init ==
    /\ inbox \in Inboxes
    /\ pc = [m \in Msgs |-> "Process"]
    /\ f = [m \in Msgs |-> ZeroEvent]
    /\ err = [m \in Msgs |-> NoError]
    /\ published = <<>>
    /\ trace = [m \in Msgs |-> <<>>]
    /\ panicked = FALSE
    /\ TestIdle

Next ==
    \E m \in Msgs :
        \/ DoProcess(m)
        \/ DoValidate(m)
        \/ DoDeleteFirewall(m)
        \/ DoError(m)
        \/ DoComplete(m)

NextSer ==
    \/ Next
    \/ \E m \in Msgs : DoErrorMarshalFails(m) \/ DoCompleteMarshalFails(m)

\* Spec where every call an invocation makes returns: Process, Validate, Error
\* and Complete are straight-line code around nc.Publish, and deleteFirewall
\* is one call of the AWS client.  While some invocation has a next statement
\* to run, one of them runs; no order among the invocations is assumed.
SpecLive == Init /\ [][Next]_vars /\ WF_vars(Next)

Spec == Init /\ [][Next]_vars

SpecSer == Init /\ [][NextSer]_vars

(***************************************************************************)
(* Observations on a handler invocation, used by the properties below.     *)
(***************************************************************************)
PublishedBy(m) == SelectSeq(published, LAMBDA p : p.by = m)

DoneBy(m) == SelectSeq(published, LAMBDA p : p.by = m /\ p.subject = DoneSubject)

ErrorBy(m) == SelectSeq(published, LAMBDA p : p.by = m /\ p.subject = ErrorSubject)

Has(m, op) == \E i \in 1..Len(trace[m]) : trace[m][i] = op

Times(m, op) == Cardinality({i \in 1..Len(trace[m]) : trace[m][i] = op})

\* What decoding the payload of m into an empty Event gives.
Decoded(m) == Unmarshal(inbox[m], ZeroEvent)

DecodeFails(m) == ~Decoded(m).err.isNil

ValidateFails(m) == ~DecodeFails(m) /\ ~Validate(Decoded(m).ev).isNil

\* The json.Marshal inside Complete failed in this invocation.
CompleteMarshalFailed(m) ==
    \E i \in 1..Len(trace[m]) - 1 : trace[m][i] = "Complete" /\ trace[m][i + 1] = "Error"

(***************************************************************************)
(* Validate as section 4.1 of the specification states it: rules 1 to 7,   *)
(* the first violated one decides.                                         *)
(***************************************************************************)
StatedRuleCheck(rule) ==
    IF rule.IP = "" THEN ErrSGRuleIPInvalid
    ELSE IF rule.Protocol = "" THEN ErrSGRuleProtocolInvalid
    ELSE IF ~(rule.FromPort \in 1..65535) THEN ErrSGRuleFromPortInvalid
    ELSE IF ~(rule.ToPort \in 1..65535) THEN ErrSGRuleToPortInvalid
    ELSE NoError

StatedRulesPass(rules) == \A i \in 1..Len(rules) : StatedRuleCheck(rules[i]).isNil

StatedFirstInRules(rules) ==
    IF StatedRulesPass(rules) THEN NoError
    ELSE StatedRuleCheck(
            rules[CHOOSE i \in 1..Len(rules) :
                    /\ ~StatedRuleCheck(rules[i]).isNil
                    /\ \A j \in 1..(i - 1) : StatedRuleCheck(rules[j]).isNil])

PassesRules1To5(ev) ==
    /\ ev.DatacenterVPCID # ""
    /\ ev.DatacenterRegion # ""
    /\ ev.DatacenterAccessKey # "" /\ ev.DatacenterAccessToken # ""
    /\ ev.SecurityGroupAWSID # ""
    /\ ev.SecurityGroupName # ""

RuleCount(ev) == len(ev.SecurityGroupRules.Ingress) + len(ev.SecurityGroupRules.Egress)

StatedValidate(ev) ==
    IF ev.DatacenterVPCID = "" THEN ErrDatacenterIDInvalid
    ELSE IF ev.DatacenterRegion = "" THEN ErrDatacenterRegionInvalid
    ELSE IF ~(ev.DatacenterAccessKey # "" /\ ev.DatacenterAccessToken # "")
        THEN ErrDatacenterCredentialsInvalid
    ELSE IF ev.SecurityGroupAWSID = "" THEN ErrSGAWSIDInvalid
    ELSE IF ev.SecurityGroupName = "" THEN ErrSGNameInvalid
    ELSE IF RuleCount(ev) < 1 THEN ErrSGRulesInvalid
    ELSE StatedFirstInRules(ev.SecurityGroupRules.Ingress.elems
                                \o ev.SecurityGroupRules.Egress.elems)

(***************************************************************************)
(* C1: every handler run that returns has published exactly once in total  *)
(* on the done and error subjects, and no run ever publishes more than     *)
(* once, whatever json.Marshal returns.  Checked under SpecSer.            *)
(***************************************************************************)
C1_ExactlyOneTerminalPublish ==
    \A m \in Msgs :
        /\ Len(DoneBy(m)) + Len(ErrorBy(m)) <= 1
        /\ pc[m] = "returned" => Len(DoneBy(m)) + Len(ErrorBy(m)) = 1

(***************************************************************************)
(* C2: a done publish happens only for a payload that Process decoded      *)
(* without error and Validate accepted; a payload that fails decoding or   *)
(* validation gets exactly one error publish by the time the handler       *)
(* returns, and never a done publish.                                      *)
(***************************************************************************)
C2_DoneOnlyAfterValidation ==
    \A m \in Msgs :
        /\ DoneBy(m) # <<>> => ~DecodeFails(m) /\ ~ValidateFails(m)
        /\ (DecodeFails(m) \/ ValidateFails(m)) =>
              /\ DoneBy(m) = <<>>
              /\ ~Has(m, "Complete")
              /\ Len(ErrorBy(m)) <= 1
              /\ pc[m] = "returned" => Len(ErrorBy(m)) = 1

C2_Witness ==
    \E m, n \in Msgs :
        /\ pc[m] = "returned" /\ ValidateFails(m) /\ Len(ErrorBy(m)) = 1
        /\ pc[n] = "returned" /\ Len(DoneBy(n)) = 1

(***************************************************************************)
(* C3: Validate returns the error of the first violated rule in the order  *)
(* 1..7 of section 4.1, and no error exactly when no rule is violated.     *)
(***************************************************************************)
C3_FirstViolatedRuleInOrder ==
    tpc = "done" => terr = StatedValidate(te)

(***************************************************************************)
(* C4: for an Event passing rules 1-5, Validate returns SGRulesInvalid     *)
(* exactly when ingress and egress together hold no rule.                  *)
(***************************************************************************)
C4_RulesInvalidIffNoRules ==
    (tpc = "done" /\ PassesRules1To5(te)) =>
        (terr = ErrSGRulesInvalid <=> RuleCount(te) = 0)

(***************************************************************************)
(* C5: on bytes that fail to decode, Process publishes those bytes, as     *)
(* they came, on the error subject and returns the decode error; the       *)
(* handler returns at once, so Process is the only call made and the echo  *)
(* the only message.  On bytes that decode, Process publishes nothing and  *)
(* returns no error.                                                       *)
(***************************************************************************)
C5_EchoOnDecodeFailure ==
    \A m \in Msgs :
        /\ (DecodeFails(m) /\ Has(m, "Process")) =>
              /\ trace[m] = <<"Process">>
              /\ pc[m] = "returned"
              /\ ~err[m].isNil
              /\ PublishedBy(m) =
                    <<[subject |-> ErrorSubject, data |-> inbox[m], by |-> m]>>
        /\ (~DecodeFails(m) /\ trace[m] = <<"Process">>) =>
              /\ PublishedBy(m) = <<>>
              /\ err[m].isNil
              /\ pc[m] = "Validate"

C5_Witness ==
    \E m, n \in Msgs :
        /\ DecodeFails(m) /\ pc[m] = "returned" /\ Len(PublishedBy(m)) = 1
        /\ ~DecodeFails(n) /\ trace[n] = <<"Process">>

(***************************************************************************)
(* C6: when json.Marshal fails inside Complete and the call comes back, an *)
(* error event has been published and nothing has been published on the    *)
(* done subject.  Checked under SpecSer.                                   *)
(***************************************************************************)
C6_CompleteDegradesToError ==
    \A m \in Msgs :
        (CompleteMarshalFailed(m) /\ pc[m] = "returned") =>
            /\ Len(ErrorBy(m)) = 1
            /\ DoneBy(m) = <<>>

(***************************************************************************)
(* C7: a payload that decodes but fails Validate ends with exactly the     *)
(* calls Process, Validate, Error: one message, on the error subject,      *)
(* whose error field is the message of the first violated rule of section  *)
(* 4.1; deleteFirewall is never called and nothing goes to done.           *)
(***************************************************************************)
C7_ValidationErrorEvent ==
    \A m \in Msgs :
        ValidateFails(m) =>
            /\ ~Has(m, "deleteFirewall")
            /\ DoneBy(m) = <<>>
            /\ pc[m] = "returned" =>
                  /\ trace[m] = <<"Process", "Validate", "Error">>
                  /\ Len(PublishedBy(m)) = 1
                  /\ PublishedBy(m)[1].subject = ErrorSubject
                  /\ PublishedBy(m)[1].data.kind = "json"
                  /\ Get(PublishedBy(m)[1].data.doc, "error", "") =
                        StatedValidate(Decoded(m).ev).msg

(***************************************************************************)
(* C8: deleteFirewall is called at most once per message, and only on an   *)
(* Event Validate accepted.  When it returns an error the handler          *)
(* publishes one message, on the error subject, whose error field is that  *)
(* error's message, and nothing on done; when it returns nil the handler   *)
(* goes on to Complete.                                                    *)
(***************************************************************************)
C8_DeleteOnceNoRetry ==
    \A m \in Msgs :
        /\ Times(m, "deleteFirewall") <= 1
        /\ Has(m, "deleteFirewall") =>
              /\ ~DecodeFails(m) /\ ~ValidateFails(m)
              /\ err[m].isNil => (pc[m] = "Complete" \/ Has(m, "Complete"))
              /\ ~err[m].isNil =>
                    /\ pc[m] = "Error" \/ Has(m, "Error")
                    /\ ~Has(m, "Complete")
                    /\ DoneBy(m) = <<>>
                    /\ pc[m] = "returned" =>
                          /\ Len(PublishedBy(m)) = 1
                          /\ PublishedBy(m)[1].subject = ErrorSubject
                          /\ Get(PublishedBy(m)[1].data.doc, "error", "") = err[m].msg

C8_Witness ==
    \E m, n \in Msgs :
        /\ pc[m] = "returned" /\ Has(m, "deleteFirewall") /\ err[m] \in DeleteErrors
        /\ Len(ErrorBy(m)) = 1
        /\ Has(n, "deleteFirewall") /\ err[n].isNil /\ Has(n, "Complete")

(***************************************************************************)
(* C9: once Error(err) has been called on the Event Process populated,     *)
(* errorMessage is err's message, every other field is as Process left it, *)
(* the one message published is the serialized Event on the error subject  *)
(* with its error field equal to that message, and nothing is on done.     *)
(***************************************************************************)
C9_ErrorPublishesEvent ==
    \A m \in Msgs :
        Has(m, "Error") =>
            /\ f[m] = [Decoded(m).ev EXCEPT !.ErrorMessage = err[m].msg]
            /\ PublishedBy(m) =
                  <<[subject |-> ErrorSubject, data |-> Marshal(f[m]), by |-> m]>>
            /\ Get(PublishedBy(m)[1].data.doc, "error", "") = err[m].msg
            /\ DoneBy(m) = <<>>

C9_Witness ==
    \E m \in Msgs :
        /\ Has(m, "Error") /\ err[m] \in DeleteErrors
        /\ Decoded(m).ev = testEvent
        /\ Len(ErrorBy(m)) = 1

C14_ErrorMarshalFailurePanics ==
    [][/\ ~panicked
       /\ panicked' => published' = published
       /\ \A m \in Msgs :
             DoErrorMarshalFails(m) =>
                 /\ panicked'
                 /\ pc'[m] = "panicked"
                 /\ published' = published]_vars

C14_Witness ==
    \E m \in Msgs :
        /\ panicked
        /\ pc[m] = "panicked"
        /\ trace[m] = <<"Process", "Validate", "Error">>
        /\ PublishedBy(m) = <<>>

(***************************************************************************)
(* C15: in every interleaving of the handler invocations, the Event of an  *)
(* invocation is built from its own payload alone, the invocation          *)
(* publishes at most one message, and when it has returned that one        *)
(* message is the one its own payload and its own outcome determine: the   *)
(* payload itself on error when decoding failed, the Event with the        *)
(* invocation's error on error when Validate or deleteFirewall failed, the *)
(* Event on done otherwise.                                                *)
(***************************************************************************)
C15_OwnTerminalMessage ==
    \A m \in Msgs :
        /\ f[m] \in { ZeroEvent, Decoded(m).ev,
                      [Decoded(m).ev EXCEPT !.ErrorMessage = err[m].msg] }
        /\ Len(PublishedBy(m)) <= 1
        /\ pc[m] = "returned" =>
              PublishedBy(m) =
                  << IF DecodeFails(m)
                        THEN [subject |-> ErrorSubject, data |-> inbox[m], by |-> m]
                     ELSE IF ~err[m].isNil
                        THEN [ subject |-> ErrorSubject,
                               data |-> Marshal([Decoded(m).ev EXCEPT
                                                   !.ErrorMessage = err[m].msg]),
                               by |-> m ]
                     ELSE [ subject |-> DoneSubject,
                            data |-> Marshal(Decoded(m).ev), by |-> m ] >>

\* Two invocations on different payloads have both returned, one with its own
\* Event on error and the other with its own Event on done.
C15_Witness ==
    \E m, n \in Msgs :
        /\ inbox[m] # inbox[n]
        /\ ~DecodeFails(m) /\ ~DecodeFails(n)
        /\ pc[m] = "returned" /\ pc[n] = "returned"
        /\ published = << [subject |-> ErrorSubject, data |-> Marshal(f[n]), by |-> n],
                          [subject |-> DoneSubject, data |-> Marshal(f[m]), by |-> m] >>
        /\ f[m] # f[n]

(***************************************************************************)
(* C16 as stated: for every Event e that Validate accepts, Process on the  *)
(* serialization of e, starting from an empty Event, returns no error,     *)
(* publishes nothing and leaves an Event equal to e in every field.        *)
(***************************************************************************)
C16_ProcessReproducesEvent ==
    (tpc # "Process" /\ Validate(tsrc).isNil) =>
        /\ te = tsrc
        /\ Process(ZeroEvent, Marshal(tsrc)).err.isNil
        /\ Process(ZeroEvent, Marshal(tsrc)).pubs = <<>>

\* Every string of the Event is one json.Marshal writes as it is.
IsValidUTF8(ev) ==
    /\ \A s \in { ev.ID, ev.DatacenterVPCID, ev.DatacenterRegion, ev.DatacenterAccessKey,
                  ev.DatacenterAccessToken, ev.NetworkAWSID, ev.SecurityGroupAWSID,
                  ev.SecurityGroupName, ev.ErrorMessage } : s # InvalidUTF8
    /\ \A rules \in { ev.SecurityGroupRules.Ingress.elems,
                      ev.SecurityGroupRules.Egress.elems } :
          \A i \in 1..Len(rules) :
              rules[i].IP # InvalidUTF8 /\ rules[i].Protocol # InvalidUTF8

(***************************************************************************)
(* C16 amended: the same, for every Event e that Validate accepts and      *)
(* whose strings are valid UTF-8; for any other accepted Event Process     *)
(* still returns no error and publishes nothing.                           *)
(***************************************************************************)
C16_ProcessReproducesUTF8Event ==
    (tpc # "Process" /\ Validate(tsrc).isNil) =>
        /\ IsValidUTF8(tsrc) => te = tsrc
        /\ Process(ZeroEvent, Marshal(tsrc)).err.isNil
        /\ Process(ZeroEvent, Marshal(tsrc)).pubs = <<>>

C16_Witness ==
    /\ tpc = "Validate"
    /\ tsrc = [testEvent EXCEPT !.NetworkAWSID = "subnet-0000000"]
    /\ te = tsrc

PortInRange(p) == p >= 1 /\ p <= 65535

\* The one rule the harness varies: the ingress rule when the egress rule is
\* the one of buildTestRules, the egress rule otherwise.
VariedRule(ev) ==
    IF ev.SecurityGroupRules.Egress.elems = <<EgressRule>>
    THEN ev.SecurityGroupRules.Ingress.elems[1]
    ELSE ev.SecurityGroupRules.Egress.elems[1]

(***************************************************************************)
(* C18: for an Event that is testEvent with one rule replaced by a rule    *)
(* with ip and protocol set, Validate returns no error exactly when the    *)
(* rule's from port and to port both lie in [1, 65535]; it returns         *)
(* SGRuleFromPortInvalid when the from port lies outside, and              *)
(* SGRuleToPortInvalid when the from port lies inside and the to port      *)
(* outside.  The ports tried are -99999, 0, 1, 80, 65535, 65536, 999999.   *)
(***************************************************************************)
C18_PortRange ==
    (tpc = "done" /\ tsrc \in PortEvents
         /\ VariedRule(te).IP # "" /\ VariedRule(te).Protocol # "") =>
        /\ terr.isNil <=>
              PortInRange(VariedRule(te).FromPort) /\ PortInRange(VariedRule(te).ToPort)
        /\ ~PortInRange(VariedRule(te).FromPort) => terr = ErrSGRuleFromPortInvalid
        /\ (PortInRange(VariedRule(te).FromPort) /\ ~PortInRange(VariedRule(te).ToPort)) =>
              terr = ErrSGRuleToPortInvalid

\* The two ends of the range are accepted.
C18_Witness ==
    /\ tpc = "done"
    /\ tsrc \in PortEvents
    /\ te.SecurityGroupRules.Egress.elems[1].FromPort = 1
    /\ te.SecurityGroupRules.Egress.elems[1].ToPort = 65535
    /\ terr.isNil

AllRulesOf(ev) == ev.SecurityGroupRules.Ingress.elems \o ev.SecurityGroupRules.Egress.elems

(***************************************************************************)
(* C19: a payload whose Event has the five header fields of rules 1-5 set, *)
(* an egress rule, and in every rule ip and protocol set and both ports in *)
(* [1, 65535] passes Validate and the handler goes on to deleteFirewall,   *)
(* whatever id and networkAwsId are (empty included) and however from port *)
(* and to port of a rule compare.                                          *)
(***************************************************************************)
C19_NoFurtherConstraint ==
    \A m \in Msgs :
        ( /\ ~DecodeFails(m)
          /\ PassesRules1To5(Decoded(m).ev)
          /\ len(Decoded(m).ev.SecurityGroupRules.Egress) >= 1
          /\ StatedRulesPass(AllRulesOf(Decoded(m).ev))
          /\ Has(m, "Validate") ) =>
            /\ err[m].isNil \/ Has(m, "deleteFirewall")
            /\ pc[m] = "deleteFirewall" \/ Has(m, "deleteFirewall")

\* deleteFirewall has been called for an Event with an empty id, and for one
\* with an empty networkAwsId and a rule whose from port is above its to port.
C19_Witness ==
    \E m, n \in Msgs :
        /\ ~DecodeFails(m) /\ Decoded(m).ev.ID = "" /\ Has(m, "deleteFirewall")
        /\ ~DecodeFails(n) /\ Decoded(n).ev.NetworkAWSID = ""
        /\ \E i \in 1..Len(AllRulesOf(Decoded(n).ev)) :
              AllRulesOf(Decoded(n).ev)[i].FromPort > AllRulesOf(Decoded(n).ev)[i].ToPort
        /\ Has(n, "deleteFirewall")

(***************************************************************************)
(* C20: when every call it makes returns, each handler invocation comes to *)
(* its return having published one terminal message, and it gets there in  *)
(* at most four calls (Process, Validate, deleteFirewall and Complete or   *)
(* Error), none of them made twice.  Checked under SpecLive.               *)
(***************************************************************************)
C20_HandlerTerminates ==
    /\ [](\A m \in Msgs :
            /\ Len(trace[m]) <= 4
            /\ \A i, j \in 1..Len(trace[m]) : trace[m][i] = trace[m][j] => i = j)
    /\ <>(\A m \in Msgs : pc[m] = "returned" /\ Len(PublishedBy(m)) = 1)

\* Every invocation has returned, one of them by the longest path.
C20_Witness ==
    /\ \A m \in Msgs : pc[m] = "returned" /\ Len(PublishedBy(m)) = 1
    /\ \E m \in Msgs : trace[m] = <<"Process", "Validate", "deleteFirewall", "Complete">>
    /\ \E m \in Msgs : trace[m] = <<"Process", "Validate", "Error">>

====
